---- MODULE Spec2Model ----
(***************************************************************************)
(* MsgConnectionOpenInit: the validating conversion between the raw        *)
(* (protobuf) connection-open-init message and the domain message.         *)
(*                                                                         *)
(* Strings are sequences of one-character strings, byte vectors sequences  *)
(* of numbers, Option<T> a sequence of length 0 (None) or 1 (Some), and    *)
(* Result<T, E> a record with an `ok` flag.                                *)
(***************************************************************************)
EXTENDS Integers, Sequences, FiniteSets, TLC

VARIABLES raw, pc, msg, raw_back, msg_back

vars == <<raw, pc, msg, raw_back, msg_back>>

\* ---------------------------------------------------------------- bounds
\* Largest whole number of seconds among the enumerated delay periods.
MaxDelaySecs == 1

\* ------------------------------------------------------- Option / Result
None == <<>>

Some(x) == <<x>>

Ok(v) == [ok |-> TRUE, value |-> v]

Err(e) == [ok |-> FALSE, error |-> e]

\* --------------------------------------------------------------- strings
S_default_client == <<"0", "7", "-", "t", "e", "n", "d", "e", "r", "m", "i", "n", "t", "-", "0">>

S_client == <<"c", "l", "i", "e", "n", "t">>

S_separator_client == <<"0", "7", "/", "t", "e", "n", "d", "e", "r", "-", "0">>

S_connection_0 == <<"c", "o", "n", "n", "e", "c", "t", "i", "o", "n", "-", "0">>

S_conn == <<"c", "o", "n", "n">>

S_too_long == <<"a", "b", "c", "d", "e", "f", "g", "h", "i", "j", "k", "s", "d", "f", "f", "j", "s", "s", "d", "k", "f", "l", "w", "e", "l", "d", "f", "l", "s", "f", "l", "a", "d", "f", "s", "f", "w", "j", "k", "r", "e", "k", "c", "m", "m", "s", "d", "f", "s", "d", "f", "j", "f", "l", "d", "d", "m", "n", "o", "p", "q", "r", "s", "t", "u">>

S_signer_a == <<"c", "o", "s", "m", "o", "s", "1", "w", "x", "e", "y", "h", "7", "z", "g", "n", "4">>

S_signer_b == <<"c", "o", "s", "m", "o", "s", "1", "q", "q", "q", "q">>

S_version_1 == <<"1">>

S_ordered == <<"O", "R", "D", "E", "R", "_", "O", "R", "D", "E", "R", "E", "D">>

S_unordered == <<"O", "R", "D", "E", "R", "_", "U", "N", "O", "R", "D", "E", "R", "E", "D">>

B_ibc == <<105, 98, 99>>

\* ------------------------------------------- collaborators (by contract)
\* Characters the identifier grammar allows.
ValidIdChars ==
    { "a", "b", "c", "d", "e", "f", "g", "h", "i", "j", "k", "l", "m",
      "n", "o", "p", "q", "r", "s", "t", "u", "v", "w", "x", "y", "z",
      "0", "1", "2", "3", "4", "5", "6", "7", "8", "9",
      ".", "_", "+", "-", "#", "[", "]", "<", ">" }

\* Length bounds of the identifier grammar.
ClientIdMinLen == 9

ConnectionIdMinLen == 10

IdMaxLen == 64

\* validate_identifier(s) -> Result<Identifier, IdentifierError>
validate_identifier(s, min, max) ==
    IF s = <<>> THEN Err("Empty")
    ELSE IF \E i \in 1..Len(s) : s[i] = "/" THEN Err("ContainSeparator")
    ELSE IF Len(s) < min \/ Len(s) > max THEN Err("InvalidLength")
    ELSE IF \E i \in 1..Len(s) : s[i] \notin ValidIdChars THEN Err("InvalidCharacter")
    ELSE Ok([str |-> s])

\* msg.client_id.parse::<ClientId>()
ClientId_from_str(s) == validate_identifier(s, ClientIdMinLen, IdMaxLen)

ConnectionId_from_str(s) == validate_identifier(s, ConnectionIdMinLen, IdMaxLen)

\* ClientId::as_str / ConnectionId::as_str
as_str(id) == id.str

\* validate_counterparty(raw) -> Result<Counterparty, CounterpartyError>:
\* the client id, the connection id when there is one (the empty wire string
\* stands for none), and a non-empty commitment prefix.
Counterparty_try_from(rc) ==
    LET cid == ClientId_from_str(rc.client_id)
        conn == IF rc.connection_id = <<>> THEN Ok(None)
                ELSE LET c == ConnectionId_from_str(rc.connection_id)
                     IN  IF c.ok THEN Ok(Some(c.value)) ELSE c
    IN  IF ~cid.ok
          THEN Err([kind |-> "CounterpartyInvalid", field |-> "client_id", cause |-> cid.error])
        ELSE IF ~conn.ok
          THEN Err([kind |-> "CounterpartyInvalid", field |-> "connection_id", cause |-> conn.error])
        ELSE IF rc.prefix = <<>>
          THEN Err([kind |-> "CounterpartyInvalid", field |-> "prefix", cause |-> "Empty"])
        ELSE Ok([client_id |-> cid.value, connection_id |-> conn.value, prefix |-> rc.prefix])

\* The counterparty's own encoder, the inverse of its validator.
Counterparty_into(cp) ==
    [client_id     |-> as_str(cp.client_id),
     connection_id |-> IF cp.connection_id = None THEN <<>> ELSE as_str(cp.connection_id[1]),
     prefix        |-> cp.prefix]

\* validate_version(raw) -> Result<Version, VersionError>
Version_try_from(rv) ==
    IF rv.identifier = <<>>
      THEN Err([kind |-> "VersionInvalid", field |-> "identifier", cause |-> "Empty"])
    ELSE IF \E i \in 1..Len(rv.features) : rv.features[i] = <<>>
      THEN Err([kind |-> "VersionInvalid", field |-> "features", cause |-> "Empty"])
    ELSE Ok([identifier |-> rv.identifier, features |-> rv.features])

\* The version's own encoder.
Version_into(v) == [identifier |-> v.identifier, features |-> v.features]

\* validate_signer(s) -> Result<Signer, SignerError>
Signer_from_str(s) ==
    IF s = <<>> THEN Err("EmptySigner") ELSE Ok([signer |-> s])

\* Signer::to_string
Signer_to_string(sg) == sg.signer

\* ------------------------------------------------------------- Duration
NANOS_PER_SEC == 1000000000

\* Duration::from_nanos(u64): whole seconds and the sub-second nanoseconds.
Duration_from_nanos(n) == [secs |-> n \div NANOS_PER_SEC, nanos |-> n % NANOS_PER_SEC]

\* Duration::as_nanos() as u64.  A duration made by from_nanos is below 2^64,
\* so the narrowing cast leaves the count as it is.
Duration_as_nanos_u64(d) == d.secs * NANOS_PER_SEC + d.nanos

\* Duration::as_secs() as u64, as a mistaken rendering would use.
Duration_as_secs_u64(d) == d.secs

\* --------------------------------------------------- ConnectionError kinds
InvalidIdentifier(cause) == [kind |-> "InvalidIdentifier", cause |-> cause]

MissingCounterparty == [kind |-> "MissingCounterparty"]

SignerError(cause) == [kind |-> "Signer", cause |-> cause]

\* msg.version.map(|version| version.try_into()).transpose()
version_transpose(ov) ==
    IF ov = None THEN Ok(None)
    ELSE LET v == Version_try_from(ov[1])
         IN  IF v.ok THEN Ok(Some(v.value)) ELSE v

\* The version the test utilities use as default.
Version_default == [identifier |-> S_version_1, features |-> <<S_ordered, S_unordered>>]

\* ------------------------------------------------- faulty decode variants
\* Validates the signer before every other field.
try_from_signer_first(m) ==
    LET sg  == Signer_from_str(m.signer)
        cid == ClientId_from_str(m.client_id)
    IN  IF ~sg.ok THEN Err(SignerError(sg.error))
        ELSE IF ~cid.ok THEN Err(InvalidIdentifier(cid.error))
        ELSE IF m.counterparty = None THEN Err(MissingCounterparty)
        ELSE LET cp  == Counterparty_try_from(m.counterparty[1])
                 ver == version_transpose(m.version)
             IN  IF ~cp.ok THEN Err(cp.error)
                 ELSE IF ~ver.ok THEN Err(ver.error)
                 ELSE Ok([client_id_on_a |-> cid.value,
                          counterparty   |-> cp.value,
                          version        |-> ver.value,
                          delay_period   |-> Duration_from_nanos(m.delay_period),
                          signer         |-> sg.value])

\* Takes the signer string without validating it.
try_from_unchecked_signer(m) ==
    LET cid == ClientId_from_str(m.client_id)
    IN  IF ~cid.ok THEN Err(InvalidIdentifier(cid.error))
        ELSE IF m.counterparty = None THEN Err(MissingCounterparty)
        ELSE LET cp  == Counterparty_try_from(m.counterparty[1])
                 ver == version_transpose(m.version)
             IN  IF ~cp.ok THEN Err(cp.error)
                 ELSE IF ~ver.ok THEN Err(ver.error)
                 ELSE Ok([client_id_on_a |-> cid.value,
                          counterparty   |-> cp.value,
                          version        |-> ver.value,
                          delay_period   |-> Duration_from_nanos(m.delay_period),
                          signer         |-> [signer |-> m.signer]])

\* Substitutes the default version for an absent one.
try_from_default_version(m) ==
    LET cid == ClientId_from_str(m.client_id)
    IN  IF ~cid.ok THEN Err(InvalidIdentifier(cid.error))
        ELSE IF m.counterparty = None THEN Err(MissingCounterparty)
        ELSE LET cp  == Counterparty_try_from(m.counterparty[1])
                 ver == version_transpose(m.version)
                 sg  == Signer_from_str(m.signer)
             IN  IF ~cp.ok THEN Err(cp.error)
                 ELSE IF ~ver.ok THEN Err(ver.error)
                 ELSE IF ~sg.ok THEN Err(SignerError(sg.error))
                 ELSE Ok([client_id_on_a |-> cid.value,
                          counterparty   |-> cp.value,
                          version        |-> IF ver.value = None
                                               THEN Some(Version_default)
                                               ELSE ver.value,
                          delay_period   |-> Duration_from_nanos(m.delay_period),
                          signer         |-> sg.value])

\* Treats an absent version like an absent counterparty.
try_from_version_required(m) ==
    LET cid == ClientId_from_str(m.client_id)
    IN  IF ~cid.ok THEN Err(InvalidIdentifier(cid.error))
        ELSE IF m.counterparty = None THEN Err(MissingCounterparty)
        ELSE LET cp  == Counterparty_try_from(m.counterparty[1])
                 ver == version_transpose(m.version)
                 sg  == Signer_from_str(m.signer)
             IN  IF ~cp.ok THEN Err(cp.error)
                 ELSE IF m.version = None THEN Err([kind |-> "EmptyVersions"])
                 ELSE IF ~ver.ok THEN Err(ver.error)
                 ELSE IF ~sg.ok THEN Err(SignerError(sg.error))
                 ELSE Ok([client_id_on_a |-> cid.value,
                          counterparty   |-> cp.value,
                          version        |-> ver.value,
                          delay_period   |-> Duration_from_nanos(m.delay_period),
                          signer         |-> sg.value])

\* Reports a failed counterparty as an invalid identifier.
try_from_rewrapped_counterparty(m) ==
    LET cid == ClientId_from_str(m.client_id)
    IN  IF ~cid.ok THEN Err(InvalidIdentifier(cid.error))
        ELSE IF m.counterparty = None THEN Err(MissingCounterparty)
        ELSE LET cp  == Counterparty_try_from(m.counterparty[1])
                 ver == version_transpose(m.version)
                 sg  == Signer_from_str(m.signer)
             IN  IF ~cp.ok THEN Err(InvalidIdentifier(cp.error.cause))
                 ELSE IF ~ver.ok THEN Err(ver.error)
                 ELSE IF ~sg.ok THEN Err(SignerError(sg.error))
                 ELSE Ok([client_id_on_a |-> cid.value,
                          counterparty   |-> cp.value,
                          version        |-> ver.value,
                          delay_period   |-> Duration_from_nanos(m.delay_period),
                          signer         |-> sg.value])

\* Looks at the counterparty before the client id.
try_from_counterparty_first(m) ==
    IF m.counterparty = None THEN Err(MissingCounterparty)
    ELSE LET cp  == Counterparty_try_from(m.counterparty[1])
             cid == ClientId_from_str(m.client_id)
             ver == version_transpose(m.version)
             sg  == Signer_from_str(m.signer)
         IN  IF ~cp.ok THEN Err(cp.error)
             ELSE IF ~cid.ok THEN Err(InvalidIdentifier(cid.error))
             ELSE IF ~ver.ok THEN Err(ver.error)
             ELSE IF ~sg.ok THEN Err(SignerError(sg.error))
             ELSE Ok([client_id_on_a |-> cid.value,
                      counterparty   |-> cp.value,
                      version        |-> ver.value,
                      delay_period   |-> Duration_from_nanos(m.delay_period),
                      signer         |-> sg.value])

\* Falls back to an empty counterparty when the wire message has none.
try_from_missing_tolerated(m) ==
    LET cid == ClientId_from_str(m.client_id)
        cp  == IF m.counterparty = None
                 THEN Ok([client_id |-> cid.value, connection_id |-> None, prefix |-> B_ibc])
                 ELSE Counterparty_try_from(m.counterparty[1])
        ver == version_transpose(m.version)
        sg  == Signer_from_str(m.signer)
    IN  IF ~cid.ok THEN Err(InvalidIdentifier(cid.error))
        ELSE IF ~cp.ok THEN Err(cp.error)
        ELSE IF ~ver.ok THEN Err(ver.error)
        ELSE IF ~sg.ok THEN Err(SignerError(sg.error))
        ELSE Ok([client_id_on_a |-> cid.value,
                 counterparty   |-> cp.value,
                 version        |-> ver.value,
                 delay_period   |-> Duration_from_nanos(m.delay_period),
                 signer         |-> sg.value])

\* ------------------------------------------------------------------ decode
\* MsgConnectionOpenInit::try_from(RawMsgConnectionOpenInit): the fields of
\* the struct literal are evaluated in source order and the first `?` that
\* meets an error returns it.
try_from(m) ==
    LET cid == ClientId_from_str(m.client_id)
    IN  IF ~cid.ok THEN Err(InvalidIdentifier(cid.error))
        ELSE IF m.counterparty = None THEN Err(MissingCounterparty)
        ELSE LET cp  == Counterparty_try_from(m.counterparty[1])
                 ver == version_transpose(m.version)
                 sg  == Signer_from_str(m.signer)
             IN  IF ~cp.ok THEN Err(cp.error)
                 ELSE IF ~ver.ok THEN Err(ver.error)
                 ELSE IF ~sg.ok THEN Err(SignerError(sg.error))
                 ELSE Ok([client_id_on_a |-> cid.value,
                          counterparty   |-> cp.value,
                          version        |-> ver.value,
                          delay_period   |-> Duration_from_nanos(m.delay_period),
                          signer         |-> sg.value])

\* ------------------------------------------------- faulty encode variants
\* Renders the delay period in whole seconds.
from_delay_in_secs(d) ==
    [client_id    |-> as_str(d.client_id_on_a),
     counterparty |-> Some(Counterparty_into(d.counterparty)),
     version      |-> IF d.version = None THEN None ELSE Some(Version_into(d.version[1])),
     delay_period |-> Duration_as_secs_u64(d.delay_period),
     signer       |-> Signer_to_string(d.signer)]

\* Clears the counterparty's connection id while rendering.
from_cleared_connection_id(d) ==
    [client_id    |-> as_str(d.client_id_on_a),
     counterparty |-> Some([Counterparty_into(d.counterparty) EXCEPT !.connection_id = <<>>]),
     version      |-> IF d.version = None THEN None ELSE Some(Version_into(d.version[1])),
     delay_period |-> Duration_as_nanos_u64(d.delay_period),
     signer       |-> Signer_to_string(d.signer)]

\* ------------------------------------------------------------------ encode
\* RawMsgConnectionOpenInit::from(MsgConnectionOpenInit)
from(d) ==
    [client_id    |-> as_str(d.client_id_on_a),
     counterparty |-> Some(Counterparty_into(d.counterparty)),
     version      |-> IF d.version = None THEN None ELSE Some(Version_into(d.version[1])),
     delay_period |-> Duration_as_nanos_u64(d.delay_period),
     signer       |-> Signer_to_string(d.signer)]

\* ------------------------------------------------------------ wire inputs
ClientIdStrings == { S_default_client, S_client, <<>>, S_separator_client }

RawCounterparties ==
    [client_id     : { S_default_client, S_client },
     connection_id : { <<>>, S_connection_0, S_conn, S_too_long },
     prefix        : { <<>>, B_ibc }]

RawVersions ==
    { [identifier |-> S_version_1, features |-> <<S_ordered, S_unordered>>],
      [identifier |-> S_version_1, features |-> <<>>],
      [identifier |-> <<>>,        features |-> <<S_ordered>>],
      [identifier |-> S_version_1, features |-> <<S_ordered, <<>>>>] }

DelayPeriods ==
    { 0, 1, NANOS_PER_SEC - 1, NANOS_PER_SEC + 1 }
      \cup { s * NANOS_PER_SEC : s \in 1..MaxDelaySecs }

SignerStrings == { S_signer_a, S_signer_b, <<>> }

RawMsgs ==
    [client_id    : ClientIdStrings,
     counterparty : { None } \cup { Some(rc) : rc \in RawCounterparties },
     version      : { None } \cup { Some(rv) : rv \in RawVersions },
     delay_period : DelayPeriods,
     signer       : SignerStrings]

\* get_dummy_raw_msg_conn_open_init()
get_dummy_raw_msg_conn_open_init ==
    [client_id    |-> S_default_client,
     counterparty |-> Some([client_id |-> S_default_client, connection_id |-> <<>>,
                            prefix |-> B_ibc]),
     version      |-> Some(Version_into(Version_default)),
     delay_period |-> 0,
     signer       |-> S_signer_a]

\* ----------------------------------------------------------- state machine
Init ==
    /\ raw \in RawMsgs
    /\ pc = "start"
    /\ msg = None
    /\ raw_back = None
    /\ msg_back = None

\* let msg = MsgConnectionOpenInit::try_from(raw.clone());
Decode ==
    /\ pc = "start"
    /\ msg' = try_from(raw)
    /\ pc' = IF msg'.ok THEN "decoded" ELSE "rejected"
    /\ UNCHANGED <<raw, raw_back, msg_back>>

\* let raw_back = RawMsgConnectionOpenInit::from(msg.clone());
Encode ==
    /\ pc = "decoded"
    /\ raw_back' = from(msg.value)
    /\ pc' = "encoded"
    /\ UNCHANGED <<raw, msg, msg_back>>

\* let msg_back = MsgConnectionOpenInit::try_from(raw_back.clone());
DecodeBack ==
    /\ pc = "encoded"
    /\ msg_back' = try_from(raw_back)
    /\ pc' = "done"
    /\ UNCHANGED <<raw, msg, raw_back>>

Next == Decode \/ Encode \/ DecodeBack

Spec == Init /\ [][Next]_vars

\* ---------------------------------------------------------------- helpers
Decoded == pc # "start"

Encoded == pc \in { "encoded", "done" }

ClientIdValid == ClientId_from_str(raw.client_id).ok

CounterpartyPresent == raw.counterparty # None

CounterpartyValid == CounterpartyPresent /\ Counterparty_try_from(raw.counterparty[1]).ok

VersionValid == version_transpose(raw.version).ok

SignerValid == Signer_from_str(raw.signer).ok

\* ------------------------------------------------------------------ claims

\* C1: the counterparty connection-id field of every encoded message is the
\* empty string, whatever connection id the domain message holds.
C1_EncodeClearsConnectionId ==
    Encoded => raw_back.counterparty[1].connection_id = <<>>

\* C2: encode(decode(r)) equals r in client_id, counterparty client id,
\* counterparty prefix, version (presence included), delay_period and signer;
\* and equals r as a whole when r's counterparty connection id is empty.
C2_RoundTripFields ==
    Encoded =>
        /\ raw_back.client_id = raw.client_id
        /\ raw_back.counterparty # None
        /\ raw_back.counterparty[1].client_id = raw.counterparty[1].client_id
        /\ raw_back.counterparty[1].prefix = raw.counterparty[1].prefix
        /\ raw_back.version = raw.version
        /\ raw_back.delay_period = raw.delay_period
        /\ raw_back.signer = raw.signer
        /\ (raw.counterparty[1].connection_id = <<>> => raw_back = raw)

C2_Witness ==
    /\ pc = "encoded"
    /\ raw.counterparty[1].connection_id = S_connection_0
    /\ raw.version # None
    /\ raw.delay_period = NANOS_PER_SEC + 1
    /\ raw_back.delay_period = NANOS_PER_SEC + 1

\* C3: decoding the re-encoded message succeeds and gives a domain message
\* equal in every field, the counterparty included, to the first one.
C3_RedecodeEqual ==
    pc = "done" => msg_back.ok /\ msg_back = msg

C3_Witness ==
    /\ pc = "done"
    /\ raw.counterparty[1].connection_id = S_connection_0
    /\ msg.value.counterparty.connection_id = Some([str |-> S_connection_0])
    /\ msg_back.ok

\* C4 as stated: decode succeeds whenever the client id, the counterparty and
\* the signer are accepted, for any optional version and any delay period.
C4_TotalForAnyVersion ==
    (Decoded /\ ClientIdValid /\ CounterpartyValid /\ SignerValid) => msg.ok

\* C4 as amended: decode succeeds whenever the client id, the counterparty and
\* the signer are accepted and the version is absent or accepted by the
\* version validator, for any delay period.
C4_TotalOnValidInput ==
    (Decoded /\ ClientIdValid /\ CounterpartyValid /\ VersionValid /\ SignerValid)
        => msg.ok

C4_Witness ==
    /\ pc = "decoded"
    /\ raw.version = None
    /\ raw.counterparty[1].connection_id = S_connection_0
    /\ raw.delay_period = NANOS_PER_SEC - 1
    /\ msg.ok

\* C5: a successful decode means every field validator accepted its field,
\* and the outcome is either a complete domain message or a single error.
C5_SuccessMeansValidated ==
    Decoded =>
        /\ msg.ok => /\ ClientIdValid
                     /\ CounterpartyValid
                     /\ VersionValid
                     /\ SignerValid
                     /\ DOMAIN msg = { "ok", "value" }
                     /\ DOMAIN msg.value = { "client_id_on_a", "counterparty", "version",
                                             "delay_period", "signer" }
        /\ ~msg.ok => DOMAIN msg = { "ok", "error" }

C5_Witness ==
    /\ pc = "decoded"
    /\ msg.ok
    /\ raw.version # None
    /\ msg.value.signer = [signer |-> S_signer_b]

\* C6: a valid client id with an absent counterparty fails with
\* MissingCounterparty, whatever version, delay period and signer are.
C6_MissingCounterparty ==
    (Decoded /\ ClientIdValid /\ ~CounterpartyPresent) => msg = Err(MissingCounterparty)

C6_Witness ==
    /\ pc = "rejected"
    /\ ClientIdValid
    /\ raw.counterparty = None
    /\ ~VersionValid
    /\ ~SignerValid
    /\ msg.error.kind = "MissingCounterparty"

\* C7: a client id the identifier validator rejects fails with
\* InvalidIdentifier carrying the validator's error, whatever the rest is.
C7_InvalidClientId ==
    (Decoded /\ ~ClientIdValid)
        => msg = Err(InvalidIdentifier(ClientId_from_str(raw.client_id).error))

C7_Witness ==
    /\ pc = "rejected"
    /\ raw.client_id = S_client
    /\ raw.counterparty = None
    /\ msg.error = InvalidIdentifier("InvalidLength")

\* C8: with a valid client id and a counterparty whose connection id is longer
\* than the maximum, decode fails with exactly the counterparty validator's
\* error.
C8_CounterpartyErrorPropagated ==
    (Decoded /\ ClientIdValid /\ CounterpartyPresent
             /\ Len(raw.counterparty[1].connection_id) > IdMaxLen)
        => /\ ~msg.ok
           /\ msg.error = Counterparty_try_from(raw.counterparty[1]).error

C8_Witness ==
    /\ pc = "rejected"
    /\ ClientIdValid
    /\ CounterpartyPresent
    /\ raw.counterparty[1].connection_id = S_too_long
    /\ raw.counterparty[1].client_id = S_default_client
    /\ ~SignerValid
    /\ msg.error.kind = "CounterpartyInvalid"

\* C9: a message without a version decodes to a domain message without a
\* version, and encoding it leaves the version absent.
C9_VersionAbsencePreserved ==
    (Decoded /\ msg.ok /\ raw.version = None)
        => /\ msg.value.version = None
           /\ Encoded => raw_back.version = None

C9_Witness ==
    /\ pc = "encoded"
    /\ raw.version = None
    /\ raw_back.version = None

\* C10: with more than one invalid field the error is that of the first
\* failing field in the order client_id, counterparty (absence before
\* content), version, signer.
C10_FirstErrorWins ==
    Decoded =>
        /\ (~ClientIdValid /\ (~CounterpartyValid \/ ~VersionValid \/ ~SignerValid))
              => (~msg.ok /\ msg.error = InvalidIdentifier(ClientId_from_str(raw.client_id).error))
        /\ (ClientIdValid /\ ~CounterpartyPresent /\ (~VersionValid \/ ~SignerValid))
              => (~msg.ok /\ msg.error = MissingCounterparty)
        /\ (ClientIdValid /\ CounterpartyPresent /\ ~CounterpartyValid
                /\ (~VersionValid \/ ~SignerValid))
              => (~msg.ok /\ msg.error = Counterparty_try_from(raw.counterparty[1]).error)
        /\ (ClientIdValid /\ CounterpartyValid /\ ~VersionValid /\ ~SignerValid)
              => (~msg.ok /\ msg.error = version_transpose(raw.version).error)

C10_Witness ==
    /\ pc = "rejected"
    /\ ClientIdValid
    /\ CounterpartyValid
    /\ ~VersionValid
    /\ ~SignerValid
    /\ msg.error.kind = "VersionInvalid"

====
